---- MODULE Spec2Model ----
(***************************************************************************)
(* Model of the gin middleware of prometheus.go: a Prometheus instance     *)
(* owns one HistogramVec (labels code, path), registers it in the          *)
(* process-wide registry, observes the latency of every request that       *)
(* passes through HandlerFunc, and serves the registry through             *)
(* prometheusHandler.                                                      *)
(*                                                                         *)
(* Strings are sequences of tokens, so that concatenation, equality and    *)
(* containment are decided by the model and not assumed.  Durations are    *)
(* whole microseconds (the bucket boundaries of the source are multiples   *)
(* of 100 microseconds).                                                   *)
(***************************************************************************)
EXTENDS Integers, Sequences, FiniteSets, Bags, TLC

\* ---------------------------------------------------------------- bounds
MaxInstances == 2
MaxRequests == 2

\* ---------------------------------------------------------------- inputs
Subsystems == {"api", "web"}
Addresses == {<<>>, <<":9090">>}
Statuses == {200, 500}
Durations == {100, 15000, 6000000}
ParamSegs == {"/:id"}

\* the host application's routes (method, route template)
AppRoutes ==
  { [method |-> "GET", template |-> <<"/users", "/:id">>],
    [method |-> "GET", template |-> <<"/health">>] }

\* the request lines clients send: method, path, raw query
RequestLines ==
  { [method |-> "GET",  path |-> <<"/users", "/42">>, query |-> <<>>],
    [method |-> "GET",  path |-> <<"/health">>,       query |-> <<>>],
    [method |-> "POST", path |-> <<"/nope">>,         query |-> <<>>],
    [method |-> "GET",  path |-> <<"/metrics">>,      query |-> <<>>],
    [method |-> "GET",  path |-> <<"/metrics">>,      query |-> <<"x=1">>] }

\* ---------------------------------------------------------------- program constants
defaultMetricPath == <<"/metrics">>

Buckets ==
  << 100, 200, 500, 1000, 2000, 5000, 10000, 20000, 50000,
     100000, 200000, 500000, 1000000, 2000000, 5000000 >>

MetricName == "request_duration_seconds"

VARIABLES
  insts,      \* the Prometheus values built so far (MetricsPath, listenAddress, wiring)
  reqDur,     \* reqDur[i]: the HistogramVec of instance i, label tuple -> child
  registry,   \* the process-wide default registry: fully-qualified name -> instance
  reqs        \* the bag of requests that entered a HandlerFunc closure, each with
              \* its context (method, target, status) and its position in the closure

vars == <<insts, reqDur, registry, reqs>>

\* ---------------------------------------------------------------- pure helpers
RECURSIVE SumSeq(_)
SumSeq(s) == IF s = <<>> THEN 0 ELSE s[1] + SumSeq(Tail(s))

Digit == <<"0", "1", "2", "3", "4", "5", "6", "7", "8", "9">>

\* strconv.Itoa for the non-negative codes a response writer holds
RECURSIVE Itoa(_)
Itoa(n) ==
  IF n < 10 THEN <<Digit[n + 1]>>
  ELSE Itoa(n \div 10) \o <<Digit[(n % 10) + 1]>>

\* url.URL.String() of an origin-form request target: path, then "?" and the raw query
URLString(path, query) ==
  IF query = <<>> THEN path ELSE path \o <<"?">> \o query

\* prometheus.BuildFQName("", subsystem, name)
FQName(subsystem) == <<subsystem, "_", MetricName>>

\* gin's route lookup, the value c.FullPath() returns ("" when nothing matched)
Matches(template, path) ==
  /\ Len(template) = Len(path)
  /\ \A k \in 1..Len(template) : template[k] \in ParamSegs \/ template[k] = path[k]

EngineRoutes(p) ==
  AppRoutes \cup
    (IF p.mounted = "engine"
       THEN {[method |-> "GET", template |-> p.MetricsPath]} ELSE {})

FullPath(routes, method, path) ==
  LET m == {rt \in routes : rt.method = method /\ Matches(rt.template, path)}
  IN  IF m = {} THEN <<>> ELSE (CHOOSE rt \in m : TRUE).template

\* the status the response writer holds when the chain starts: 200 for a matched
\* route, 404 when the engine serves its no-route chain
InitialStatus(fullPath) == IF fullPath = <<>> THEN 404 ELSE 200

\* ---------------------------------------------------------------- histogram
\* a search that takes a boundary for exclusive
SearchBucketExclusive(v) ==
  LET hit == {k \in 1..Len(Buckets) : Buckets[k] > v}
  IN  IF hit = {} THEN Len(Buckets) + 1
      ELSE CHOOSE k \in hit : \A j \in hit : k <= j

\* sort.SearchFloat64s(upperBounds, v): the first bucket whose boundary is >= v
SearchBucket(v) ==
  LET hit == {k \in 1..Len(Buckets) : Buckets[k] >= v}
  IN  IF hit = {} THEN Len(Buckets) + 1
      ELSE CHOOSE k \in hit : \A j \in hit : k <= j

NewChild == [counts |-> [k \in 1..Len(Buckets) |-> 0], count |-> 0, sum |-> 0]

\* an Observe whose count is a plain store of a stale read: the update of a
\* concurrent observer is lost
ObserveChildLost(ch, v) ==
  LET b == SearchBucket(v)
  IN  [counts |-> [k \in 1..Len(Buckets) |-> IF k = b THEN 1 ELSE ch.counts[k]],
       count  |-> 1,
       sum    |-> ch.sum + v]

\* histogram.Observe(v) on one child
ObserveChild(ch, v) ==
  LET b == SearchBucket(v)
  IN  [counts |-> [k \in 1..Len(Buckets) |->
                     IF k = b THEN ch.counts[k] + 1 ELSE ch.counts[k]],
       count  |-> ch.count + 1,
       sum    |-> ch.sum + v]

\* a lookup that builds a fresh child on every call
WithLabelsFresh(vec, lbl) ==
  [l \in DOMAIN vec \cup {lbl} |-> IF l = lbl THEN NewChild ELSE vec[l]]

\* HistogramVec.WithLabelValues(code, path): the child of the tuple, created on first use
WithLabels(vec, lbl) ==
  IF lbl \in DOMAIN vec THEN vec
  ELSE [l \in DOMAIN vec \cup {lbl} |-> IF l = lbl THEN NewChild ELSE vec[l]]

\* histogram.Write: the cumulative bucket counts, the count and the sum of a child
WriteChild(ch) ==
  [buckets |-> [k \in 1..Len(Buckets) |-> SumSeq(SubSeq(ch.counts, 1, k))],
   count   |-> ch.count,
   sum     |-> ch.sum]

\* Registry.Gather through promhttp.Handler(): every registered collector, by name
Gather(reg, vecs) ==
  [n \in DOMAIN reg |-> [l \in DOMAIN vecs[reg[n]] |-> WriteChild(vecs[reg[n]][l])]]

\* prometheus.Register(p.reqDur): the collector is added unless its name is taken;
\* the returned error is dropped by registerMetrics
Register(reg, name, i) ==
  IF name \in DOMAIN reg THEN reg
  ELSE [n \in DOMAIN reg \cup {name} |-> IF n = name THEN i ELSE reg[n]]

\* ---------------------------------------------------------------- label derivation
\* a path label without the "404" substitution
PathLabelNoSentinel(method, fullPath) == <<method, "_">> \o fullPath

\* the path label of HandlerFunc: c.Request.Method + "_" + path, "404" for no route
PathLabel(method, fullPath) ==
  <<method, "_">> \o (IF fullPath = <<>> THEN <<"404">> ELSE fullPath)

\* a status label read before c.Next()
StatusLabelEarly(r) == Itoa(InitialStatus(r.fullPath))

\* the status label of HandlerFunc: strconv.Itoa(c.Writer.Status())
StatusLabel(r) == Itoa(r.status)

\* the test that opens HandlerFunc
IsMetricsRequest(p, r) == URLString(r.path, r.query) = p.MetricsPath

\* ---------------------------------------------------------------- state
Init ==
  /\ insts = <<>>
  /\ reqDur = <<>>
  /\ registry = <<>>
  /\ reqs = EmptyBag

\* NewPrometheus(subsystem), with registerMetrics
NewPrometheus(s) ==
  /\ Len(insts) < MaxInstances
  /\ LET i == Len(insts) + 1 IN
       /\ insts' = Append(insts, [subsystem |-> s, MetricsPath |-> defaultMetricPath,
                                  listenAddress |-> <<>>, mounted |-> "none"])
       /\ reqDur' = Append(reqDur, <<>>)
       /\ registry' = Register(registry, FQName(s), i)
  /\ UNCHANGED reqs

\* SetListenAddress / SetListenAddressWithRouter
SetListenAddress(i, a) ==
  /\ i \in DOMAIN insts
  /\ insts[i].listenAddress # a
  /\ insts' = [insts EXCEPT ![i].listenAddress = a]
  /\ UNCHANGED <<reqDur, registry, reqs>>

\* SetMetricsPath: where the metrics route is registered
MountPoint(p) == IF p.listenAddress # <<>> THEN "listener" ELSE "engine"

\* Use(e): the middleware and the metrics route on the host engine
Use(i) ==
  /\ i \in DOMAIN insts
  /\ insts[i].mounted = "none"
  /\ insts' = [insts EXCEPT ![i].mounted = "engine"]
  /\ UNCHANGED <<reqDur, registry, reqs>>

\* UseCustom(e): the middleware on the host engine, the route where SetMetricsPath puts it
UseCustom(i) ==
  /\ i \in DOMAIN insts
  /\ insts[i].mounted = "none"
  /\ insts' = [insts EXCEPT ![i].mounted = MountPoint(insts[i])]
  /\ UNCHANGED <<reqDur, registry, reqs>>

\* ---------------------------------------------------------------- a request
\* one request of the bag moves from r to r2
Step(r, r2) == reqs' = (reqs (-) SetToBag({r})) (+) SetToBag({r2})

\* The closure of HandlerFunc is entered: the test of the metrics path, then
\* either the bare c.Next() (pc "pass") or start := time.Now(); c.Next() (pc "next").
Begin(i, line) ==
  /\ i \in DOMAIN insts
  /\ insts[i].mounted # "none"
  /\ BagCardinality(reqs) < MaxRequests
  /\ LET fp == FullPath(EngineRoutes(insts[i]), line.method, line.path)
         r0 == [inst |-> i, method |-> line.method, path |-> line.path,
                query |-> line.query, fullPath |-> fp,
                status |-> InitialStatus(fp), served |-> FALSE,
                pc |-> "next", recovered |-> "no", observed |-> FALSE,
                code |-> <<>>, label |-> <<>>, elapsed |-> 0]
     IN reqs' = reqs (+) SetToBag({
                  [r0 EXCEPT !.pc = IF IsMetricsRequest(insts[i], r0)
                                      THEN "pass" ELSE "next"]})
  /\ UNCHANGED <<insts, reqDur, registry>>

Downstream(r) == r.pc \in {"pass", "next"}

\* the route of the request is the metrics route, whose handler is prometheusHandler
OnMetricsRoute(r) ==
  /\ insts[r.inst].mounted = "engine"
  /\ r.fullPath = insts[r.inst].MetricsPath

\* downstream: an application handler sets the response status
WriteStatus(r, s) ==
  /\ Downstream(r)
  /\ ~OnMetricsRoute(r)
  /\ r.status # s
  /\ Step(r, [r EXCEPT !.status = s])
  /\ UNCHANGED <<insts, reqDur, registry>>

\* downstream: prometheusHandler serves the registry on the host engine; the
\* body it writes is Gather(registry, reqDur)
ServeMetrics(r) ==
  /\ Downstream(r)
  /\ OnMetricsRoute(r)
  /\ ~r.served
  /\ Step(r, [r EXCEPT !.served = TRUE, !.status = 200])
  /\ UNCHANGED <<insts, reqDur, registry>>

\* prometheusHandler on the router of the dedicated listener (no middleware
\* there); the body it writes is Gather(registry, reqDur)
ScrapeListener(i) ==
  /\ i \in DOMAIN insts
  /\ insts[i].mounted = "listener"
  /\ UNCHANGED <<insts, reqDur, registry, reqs>>

\* c.Next() returns to the closure
Return(r) ==
  /\ Downstream(r)
  /\ OnMetricsRoute(r) => r.served
  /\ Step(r, [r EXCEPT !.pc = IF @ = "pass" THEN "done" ELSE "after"])
  /\ UNCHANGED <<insts, reqDur, registry>>

\* A downstream handler panics.  A recovery middleware placed after this one
\* ("inner") catches it, sets 500 and lets c.Next() return; one placed before
\* ("outer") catches it only after the panic has unwound the closure, which
\* has no deferred call: the rest of the closure never runs.
Panic(r, rec) ==
  /\ Downstream(r)
  /\ ~OnMetricsRoute(r)
  /\ Step(r, [r EXCEPT !.status = 500, !.recovered = rec,
                       !.pc = IF rec = "outer" \/ @ = "pass" THEN "done" ELSE "after"])
  /\ UNCHANGED <<insts, reqDur, registry>>

\* After c.Next(): status, end, elapsed, path, and p.reqDur.WithLabelValues(...)
WithLabelValues(r, d) ==
  /\ r.pc = "after"
  /\ LET code == StatusLabel(r)
         lbl  == PathLabel(r.method, r.fullPath)
     IN /\ Step(r, [r EXCEPT !.code = code, !.label = lbl,
                             !.elapsed = d, !.pc = "observe"])
        /\ reqDur' = [reqDur EXCEPT ![r.inst] = WithLabels(@, <<code, lbl>>)]
  /\ UNCHANGED <<insts, registry>>

\* ... .Observe(elapsed), the last statement of the closure
Observe(r) ==
  /\ r.pc = "observe"
  /\ reqDur' = [reqDur EXCEPT ![r.inst][<<r.code, r.label>>] = ObserveChild(@, r.elapsed)]
  /\ Step(r, [r EXCEPT !.pc = "done", !.observed = TRUE])
  /\ UNCHANGED <<insts, registry>>

\* ---------------------------------------------------------------- specifications
\* The whole life of the process, from an empty registry: construction, wiring
\* and traffic.  The traffic is kept to the request lines of two paths, one
\* latency and handlers that neither set a status nor panic.
SetupLines == {line \in RequestLines : line.path \in {<<"/health">>, <<"/metrics">>}}

Next ==
  \/ \E s \in Subsystems : NewPrometheus(s)
  \/ \E i \in 1..MaxInstances, a \in Addresses : SetListenAddress(i, a)
  \/ \E i \in 1..MaxInstances : Use(i)
  \/ \E i \in 1..MaxInstances : UseCustom(i)
  \/ \E i \in 1..MaxInstances, line \in SetupLines : Begin(i, line)
  \/ \E r \in BagToSet(reqs) : ServeMetrics(r)
  \/ \E i \in 1..MaxInstances : ScrapeListener(i)
  \/ \E r \in BagToSet(reqs) : Return(r)
  \/ \E r \in BagToSet(reqs) : WithLabelValues(r, 15000)
  \/ \E r \in BagToSet(reqs) : Observe(r)

Spec == Init /\ [][Next]_vars

\* Serving: one instance, p := NewPrometheus("api"), already wired into the host
\* engine by Use, by UseCustom, or by SetListenAddress and UseCustom; every
\* request line, status, latency and panic of the input sets.
InitServe ==
  /\ \E a \in Addresses, m \in {"engine", "listener"} :
       /\ m = "listener" => a # <<>>
       /\ insts = <<[subsystem |-> "api", MetricsPath |-> defaultMetricPath,
                     listenAddress |-> a, mounted |-> m]>>
  /\ reqDur = << <<>> >>
  /\ registry = Register(<<>>, FQName("api"), 1)
  /\ reqs = EmptyBag

NextServe ==
  \/ \E line \in RequestLines : Begin(1, line)
  \/ \E r \in BagToSet(reqs), s \in Statuses : WriteStatus(r, s)
  \/ \E r \in BagToSet(reqs) : ServeMetrics(r)
  \/ ScrapeListener(1)
  \/ \E r \in BagToSet(reqs) : Return(r)
  \/ \E r \in BagToSet(reqs), rec \in {"outer", "inner"} : Panic(r, rec)
  \/ \E r \in BagToSet(reqs), d \in Durations : WithLabelValues(r, d)
  \/ \E r \in BagToSet(reqs) : Observe(r)

SpecServe == InitServe /\ [][NextServe]_vars
\* ---------------------------------------------------------------- claims
\* the number of requests of the bag among the records S
Copies(S) == BagCardinality([r \in S |-> reqs[r]])

RECURSIVE TotalCount(_)
TotalCount(vec) ==
  IF DOMAIN vec = {} THEN 0
  ELSE LET l == CHOOSE x \in DOMAIN vec : TRUE
       IN  vec[l].count + TotalCount([x \in DOMAIN vec \ {l} |-> vec[x]])

\* t occurs in s as a contiguous run
Contains(s, t) ==
  \E k \in 0..(Len(s) - Len(t)) : SubSeq(s, k + 1, k + Len(t)) = t

DigitValue(c) == CHOOSE d \in 0..9 : Digit[d + 1] = c

RECURSIVE DecValue(_)
DecValue(ds) ==
  IF Len(ds) = 1 THEN DigitValue(ds[1])
  ELSE 10 * DecValue(SubSeq(ds, 1, Len(ds) - 1)) + DigitValue(ds[Len(ds)])

\* the request is not the metrics path, as HandlerFunc tests it
Instrumented(r) == URLString(r.path, r.query) # insts[r.inst].MetricsPath

\* the downstream chain returned to the closure and the closure has finished
Completed(r) == r.pc = "done" /\ r.recovered # "outer"

\* the tuple the spec assigns to a request: final status, method "_" template or 404
TupleOf(r) ==
  << Itoa(r.status),
     <<r.method, "_">> \o (IF r.fullPath = <<>> THEN <<"404">> ELSE r.fullPath) >>

\* the finished requests whose closure directed an observation at tuple lbl of instance i
Directed(i, lbl) ==
  {r \in BagToSet(reqs) :
     r.inst = i /\ r.pc = "done" /\ r.label # <<>> /\ <<r.code, r.label>> = lbl}

Finished(i) ==
  {r \in BagToSet(reqs) : r.inst = i /\ Instrumented(r) /\ Completed(r)}

\* C1: the histogram counts of an instance, summed over all label tuples, equal
\* the number of its completed instrumented requests, and the tuple of each such
\* request (final status, method "_" route template) holds an observation.
C1_OneObservePerRequest ==
  \A i \in DOMAIN insts :
    /\ TotalCount(reqDur[i]) = Copies(Finished(i))
    /\ \A r \in Finished(i) :
         TupleOf(r) \in DOMAIN reqDur[i] /\ reqDur[i][TupleOf(r)].count >= 1

C1_Witness ==
  \E i \in DOMAIN insts :
    /\ Copies(Finished(i)) = 2
    /\ Cardinality(DOMAIN reqDur[i]) = 2
    /\ TotalCount(reqDur[i]) = 2

\* C2: a request whose path equals the MetricsPath of its instance adds no
\* observation to the histogram, whatever its query string and wherever the
\* metrics route is served.
C2_MetricsPathNotObserved ==
  \A r \in BagToSet(reqs) :
    r.path = insts[r.inst].MetricsPath => ~r.observed

\* C3: no usable Prometheus value exists whose histogram the registry refused:
\* every instance NewPrometheus returned is the collector registered under its name.
C3_DuplicateAborts ==
  \A i \in DOMAIN insts :
    LET n == FQName(insts[i].subsystem)
    IN  n \in DOMAIN registry /\ registry[n] = i

\* C4 (as stated): an unmatched request is labelled METHOD_404 whatever its
\* status; a matched one is labelled method "_" template and the label never
\* contains the raw request path.
C4_LabelNeverHoldsRawPath ==
  \A r \in BagToSet(reqs) :
    r.label # <<>> =>
      IF r.fullPath = <<>>
        THEN r.label = <<r.method, "_", "404">>
        ELSE r.label = <<r.method, "_">> \o r.fullPath /\ ~Contains(r.label, r.path)

\* C4 (amended): an unmatched request is labelled METHOD_404 whatever its
\* status; a matched one is labelled method "_" template, and the label
\* contains the raw request path only where the template itself does.
C4_LabelFromTemplate ==
  \A r \in BagToSet(reqs) :
    r.label # <<>> =>
      IF r.fullPath = <<>>
        THEN r.label = <<r.method, "_", "404">>
        ELSE /\ r.label = <<r.method, "_">> \o r.fullPath
             /\ Contains(r.label, r.path) => Contains(r.fullPath, r.path)

C4_Witness ==
  /\ \E r \in BagToSet(reqs) :
       r.observed /\ r.fullPath = <<>> /\ r.status = 200 /\ r.label = <<"POST", "_", "404">>
  /\ \E r \in BagToSet(reqs) :
       r.observed /\ r.path = <<"/users", "/42">> /\ r.label = <<"GET", "_", "/users", "/:id">>

\* C5: under every interleaving, the count of each label tuple equals the number
\* of finished requests that directed their observation at that tuple, and
\* every such request finds its tuple.
C5_NoLostUpdate ==
  \A i \in DOMAIN insts :
    /\ \A lbl \in DOMAIN reqDur[i] : reqDur[i][lbl].count = Copies(Directed(i, lbl))
    /\ \A r \in BagToSet(reqs) :
         r.inst = i /\ r.label # <<>> => <<r.code, r.label>> \in DOMAIN reqDur[i]

\* two requests in flight on one tuple: one has observed, the other holds the
\* child and has not observed yet
C5_Witness ==
  \E r1, r2 \in BagToSet(reqs) :
    /\ r1.inst = r2.inst
    /\ r1.pc = "observe" /\ r2.pc = "done" /\ r2.observed
    /\ <<r1.code, r1.label>> = <<r2.code, r2.label>>
    /\ reqDur[r1.inst][<<r1.code, r1.label>>].count = 1

\* C6: for every label tuple, the exported count equals the number of
\* observations made on it, and the exported counter of each of the 15 buckets
\* equals the number of those observations whose value is <= the boundary.
C6_CumulativeBuckets ==
  \A i \in DOMAIN insts : \A lbl \in DOMAIN reqDur[i] :
    LET w == WriteChild(reqDur[i][lbl])
    IN  /\ Len(Buckets) = 15
        /\ w.count = Copies(Directed(i, lbl))
        /\ \A k \in 1..Len(Buckets) :
             w.buckets[k] = Copies({r \in Directed(i, lbl) : r.elapsed <= Buckets[k]})

\* one tuple observed at 100 us (a boundary) and at 15 ms: the 0.0001 bucket
\* holds one, the 0.01 bucket one, the 0.02 bucket and all above hold two
C6_Witness ==
  \E i \in DOMAIN insts : \E lbl \in DOMAIN reqDur[i] :
    LET w == WriteChild(reqDur[i][lbl])
    IN  /\ w.count = 2
        /\ w.buckets[1] = 1 /\ w.buckets[7] = 1
        /\ \A k \in 8..15 : w.buckets[k] = 2

\* what a read of the metrics endpoint reports for tuple lbl of instance i
Reported(i, lbl) ==
  LET g == Gather(registry, reqDur)
      n == FQName(insts[i].subsystem)
  IN  IF n \in DOMAIN g /\ lbl \in DOMAIN g[n] THEN g[n][lbl] ELSE <<>>

\* C7: for every instance and every tuple it has observed, a read of the metrics
\* endpoint reports the bucket counts and the count the instance's histogram holds.
C7_ExportShowsEveryInstance ==
  \A i \in DOMAIN insts : \A lbl \in DOMAIN reqDur[i] :
    reqDur[i][lbl].count > 0 => Reported(i, lbl) = WriteChild(reqDur[i][lbl])

\* a request whose handler is the exporter moves on in this step
ReadAdvances ==
  \E r \in BagToSet(reqs) :
    /\ OnMetricsRoute(r)
    /\ r.path = insts[r.inst].MetricsPath
    /\ CopiesIn(r, reqs') < CopiesIn(r, reqs)

\* C8: no step of a read of the metrics endpoint changes a counter, a sum or a
\* count of any label tuple.
C8_ReadNonMutating == [][ReadAdvances => reqDur' = reqDur]_vars

\* C9: a request whose downstream handler panicked and was recovered, with a
\* final status reported, is observed, wherever the recovery sits in the chain.
C9_ObservedWhereverRecovered ==
  \A r \in BagToSet(reqs) :
    r.recovered # "no" /\ r.pc = "done" /\ Instrumented(r) => r.observed

\* C10: the code label of an observation is the decimal form of the status the
\* response writer holds once the downstream chain has completed (the last
\* value set), not of a status it held before or during it.
C10_StatusReadAfterNext ==
  \A r \in BagToSet(reqs) :
    r.label # <<>> => DecValue(r.code) = r.status /\ Len(r.code) = 3

\* a handler changed the status from the one the chain started with
C10_Witness ==
  \E r \in BagToSet(reqs) :
    /\ r.observed /\ r.recovered = "no"
    /\ r.status # InitialStatus(r.fullPath)
    /\ r.code = <<"5", "0", "0">>
====
